---- MODULE Spec2Model ----
(***************************************************************************)
(* Model of lsl-viewer (src/src/main.rs): the acquisition actor            *)
(* (lsl_handler_thread), the two mpsc queues between it and the            *)
(* presentation context, and the presentation context's state (LslViewer)  *)
(* as changed by process_responses, baseline_correct, the panel controls   *)
(* and the plot closure of update().                                       *)
(*                                                                         *)
(* Timestamps and sample values are integers.  Option<T> is a sequence of  *)
(* length 0 (None) or 1 (Some).  Vec and VecDeque are sequences; a Rust    *)
(* index i is the TLA+ index i + 1.                                        *)
(*                                                                         *)
(* Spec is a run from construction: discovery, connecting, disconnecting   *)
(* and the samples pulled in between.  SpecData is a session on one        *)
(* connection: the samples, the window and baseline controls and the plot. *)
(* SpecSweep is the sweep of the plot over a longer recording delivered in *)
(* order, with all display controls.  SpecClose is Spec with the window    *)
(* being closed; the other three end before the window is closed.          *)
(* SpecLive is Spec with the actor thread scheduled fairly.                *)
(***************************************************************************)
EXTENDS Integers, Sequences, FiniteSets, TLC

\* ------------------------------------------------------------------ bounds
\* Spec: the number of commands the user sends in a run (after the initial
\* RefreshStreams that LslViewer::new sends by itself) and of samples the stream
\* source delivers.
MaxCmds == 2
MaxSamples == 2
\* SpecData: the number of samples the stream source delivers after the connection
\* is made, and of display controls the user acts on.
MaxSamplesData == 4
MaxControls == 1
\* Number of times the source stamps a sample earlier than the one before it
\* (SpecData; under Spec the source delivers in order).
MaxBackSteps == 1
\* Largest timestamp the stream source stamps a sample with.
MaxTime == 2
\* SpecSweep: the number of samples the source delivers, and the smallest and the
\* largest timestamp it stamps one with.
MaxSamplesSweep == 5
MinTimeSweep == 2
MaxTimeSweep == 5
\* Largest decimation factor the user picks.
MaxFactor == 3

\* ------------------------------------------------------- program constants
DEFAULT_TIME_WINDOW_SECONDS == 2
DEFAULT_DOWN_SAMPLE_FACTOR == 1
\* Number of entries of the colour palette of process_responses.
NumColors == 14
\* The window lengths the "time_window" drop-down offers.
TimeWindowChoices == {1, 2, 5, 10}
\* The factors the "resample" drop-down offers.
ResampleChoices == {1, 2, 3, 4, 5, 10}

\* ------------------------------------------------ the stream source adapter
\* The stream sources "A" and "B" that may be on the network; their channel counts
\* (StreamInfo::channel_count).
StreamChannelCount(s) == IF s = "A" THEN 1 ELSE 2
\* What lsl::resolve_streams may return on success.
DiscoveryResults == {<< >>, <<"A">>, <<"B", "A">>}
\* The value of channel ch (1-based) of the sample stamped ts: the source's signal.
Signal(ts, ch) == (ts + ch) % 2

None == << >>
Some(x) == <<x>>

\* ---------------------------------------------------------------- helpers
Last(s) == s[Len(s)]
Max2(a, b) == IF a >= b THEN a ELSE b

\* ---------------------------------------------------------------- messages
CmdRefreshStreams == [type |-> "RefreshStreams"]
CmdConnect(i) == [type |-> "Connect", index |-> i]
CmdDisconnect == [type |-> "Disconnect"]

RespStreamsFound(streams) == [type |-> "StreamsFound", streams |-> streams]
RespConnected(name, channels) == [type |-> "Connected", name |-> name, channels |-> channels]
RespDisconnected == [type |-> "Disconnected"]
RespError(msg) == [type |-> "Error", msg |-> msg]
RespData(timestamp, values) == [type |-> "Data", timestamp |-> timestamp, values |-> values]

VARIABLES
    \* --- the two queues (std::sync::mpsc channels)
    cmd_q,              \* commands sent and not yet received
    resp_q,             \* responses sent and not yet received
    command_sender,     \* TRUE while LslViewer holds the command Sender
    response_receiver,  \* TRUE while LslViewer holds the response Receiver
    \* --- lsl_handler_thread
    a_pc,               \* "poll", "pull", "done" (left the loop) or "panicked"
    a_streams,          \* its available_streams (the discovery cache)
    inlet,              \* None or Some(stream)
    a_channel_count,    \* its channel_count
    \* --- LslViewer
    v_pc,               \* position in update(): "drain", "frame", "closing", "closed"
    available_streams, selected_stream_index, is_connected,
    channel_names, channel_count, selected_channels,
    time_window_seconds, downsample_factor,
    data_buffer, channel_baselines,
    status_message, last_t, channel_colors,
    last_t0,            \* None, or Some(t0) of the redraw before, if it drew the plot
                        \* (not read by the program)
    \* --- the environment's remaining budget
    cmds_left, controls_left, samples_left, back_left,
    src_clock,          \* the timestamp of the sample the source delivered last
    src_end,            \* the largest timestamp the source stamps a sample with
    \* --- history (not read by the program)
    sent,               \* every response the actor sent successfully, in order
    applied,            \* every response process_responses has applied, in order
    queued_behind       \* number of commands queued behind the last command received,
                        \* when try_recv returned it

queues == <<cmd_q, resp_q, command_sender, response_receiver>>
actor == <<a_pc, a_streams, inlet, a_channel_count>>
connection == <<available_streams, selected_stream_index, is_connected>>
channels == <<channel_names, channel_count, selected_channels, channel_colors>>
display == <<time_window_seconds, downsample_factor>>
buffers == <<data_buffer, channel_baselines, last_t, last_t0>>
view == <<v_pc, connection, channels, display, buffers, status_message>>
budget == <<cmds_left, controls_left, samples_left, back_left, src_clock, src_end>>
history == <<sent, applied, queued_behind>>
vars == <<queues, actor, view, budget, history>>

\* ==================================================================== Init
\* LslViewer::new: both channels are created, the actor thread is spawned, the
\* fields take their defaults and the initial RefreshStreams is sent.
InitWith(cmds, controls, samples, back_steps) ==
    /\ cmd_q = <<CmdRefreshStreams>>
    /\ resp_q = << >>
    /\ command_sender = TRUE
    /\ response_receiver = TRUE
    /\ a_pc = "poll"
    /\ a_streams = << >>
    /\ inlet = None
    /\ a_channel_count = 0
    /\ v_pc = "drain"
    /\ available_streams = << >>
    /\ selected_stream_index = None
    /\ is_connected = FALSE
    /\ channel_names = << >>
    /\ channel_count = 0
    /\ selected_channels = << >>
    /\ time_window_seconds = DEFAULT_TIME_WINDOW_SECONDS
    /\ downsample_factor = DEFAULT_DOWN_SAMPLE_FACTOR
    /\ data_buffer = << >>
    /\ channel_baselines = << >>
    /\ status_message = ""
    /\ last_t = 0
    /\ last_t0 = None
    /\ channel_colors = << >>
    /\ cmds_left = cmds
    /\ controls_left = controls
    /\ samples_left = samples
    /\ back_left = back_steps
    /\ src_clock = 0
    /\ src_end = MaxTime
    /\ sent = << >>
    /\ applied = << >>
    /\ queued_behind = 0

Init == InitWith(MaxCmds, 0, MaxSamples, 0)


\* ======================================================= lsl_handler_thread
\* The actor thread runs (it has neither left its loop nor panicked), so it
\* still holds the command Receiver and the response Sender.
ActorAlive == a_pc \in {"poll", "pull"}

\* resp_tx.send(r): the response is queued while the Receiver exists; after the
\* Receiver was dropped send returns Err and the response is discarded.
SendOk == response_receiver
RespAfterSend(q, rs) == IF SendOk THEN q \o rs ELSE q

\* The StreamData the actor builds from a StreamInfo.
NominalSrate(s) == IF s = "A" THEN 1 ELSE 2
ToStreamData(s) ==
    [name |-> s, channel_count |-> StreamChannelCount(s), sample_rate |-> NominalSrate(s)]
StreamDataOf(streams) == [i \in 1..Len(streams) |-> ToStreamData(streams[i])]

\* The labels the stream's XML description carries: A names its channel, B none.
XmlLabels(s) == IF s = "A" THEN <<"Fz">> ELSE << >>

extract_channel_names_Unchecked(xml_labels, expected_count, info_channel_count) ==
    xml_labels
extract_channel_names(xml_labels, expected_count, info_channel_count) ==
    IF Len(xml_labels) # expected_count
    THEN [i \in 1..info_channel_count |-> "Ch " \o ToString(i - 1)]
    ELSE xml_labels

\* The thread panics: its stack is unwound, which drops the inlet, the command
\* Receiver (with the commands still queued) and the response Sender.
ActorDies(pc) ==
    /\ a_pc' = pc
    /\ cmd_q' = << >>
    /\ inlet' = None

\* Bookkeeping of a try_recv that returned a command.
NoteCommandReceived == queued_behind' = Len(Tail(cmd_q))

\* Where the loop stands after the match on try_recv: with an inlet it goes on to
\* pull_chunk; without one it sleeps and polls again.
PcAfterPoll(inl) == IF inl = None THEN "poll" ELSE "pull"

\* What the Disconnect arm leaves in `inlet`: inlet = None.
InletAfterDisconnect_Kept(old) == old
InletAfterDisconnect(old) == None
\* What a Connect whose StreamInlet::new failed leaves in `inlet`: the Err arm
\* does not assign it.
InletAfterFailedConnect_Dropped(old) == None
InletAfterFailedConnect(old) == old
\* Whether available_streams.get(index) is Some.
IndexInRange(index, streams) == index < Len(streams)

\* available_streams after Ok(streams) of lsl::resolve_streams: `available_streams
\* = streams`, the list found replaces the cache.
CacheAfterRefresh_Merged(old, found) == old \o found
CacheAfterRefresh(old, found) == found

\* Ok(LslCommand::RefreshStreams): resolve_streams succeeds with some list or fails.
RecvRefreshStreams ==
    /\ a_pc = "poll"
    /\ cmd_q # << >>
    /\ Head(cmd_q).type = "RefreshStreams"
    /\ cmd_q' = Tail(cmd_q)
    /\ NoteCommandReceived
    /\ \/ \E streams \in DiscoveryResults :
            /\ a_streams' = CacheAfterRefresh(a_streams, streams)
            /\ resp_q' = RespAfterSend(resp_q, <<RespStreamsFound(StreamDataOf(a_streams'))>>)
            /\ sent' = RespAfterSend(sent, <<RespStreamsFound(StreamDataOf(a_streams'))>>)
       \/ /\ a_streams' = a_streams
          /\ resp_q' = RespAfterSend(resp_q, <<RespError("Failed to refresh streams: e")>>)
          /\ sent' = RespAfterSend(sent, <<RespError("Failed to refresh streams: e")>>)
    /\ a_pc' = PcAfterPoll(inlet)
    /\ UNCHANGED <<inlet, a_channel_count, command_sender, response_receiver,
                   view, budget, applied>>

\* Ok(LslCommand::Connect(index)), index out of range.
RecvConnectInvalidIndex ==
    /\ a_pc = "poll"
    /\ cmd_q # << >>
    /\ Head(cmd_q).type = "Connect"
    /\ ~IndexInRange(Head(cmd_q).index, a_streams)
    /\ cmd_q' = Tail(cmd_q)
    /\ NoteCommandReceived
    /\ resp_q' = RespAfterSend(resp_q, <<RespError("Invalid stream index")>>)
    /\ sent' = RespAfterSend(sent, <<RespError("Invalid stream index")>>)
    /\ a_pc' = PcAfterPoll(inlet)
    /\ UNCHANGED <<a_streams, inlet, a_channel_count, command_sender, response_receiver,
                   view, budget, applied>>

\* Ok(LslCommand::Connect(index)), index in range, StreamInlet::new fails.
RecvConnectOpenFails ==
    /\ a_pc = "poll"
    /\ cmd_q # << >>
    /\ Head(cmd_q).type = "Connect"
    /\ IndexInRange(Head(cmd_q).index, a_streams)
    /\ cmd_q' = Tail(cmd_q)
    /\ NoteCommandReceived
    /\ a_channel_count' = StreamChannelCount(a_streams[Head(cmd_q).index + 1])
    /\ inlet' = InletAfterFailedConnect(inlet)
    /\ resp_q' = RespAfterSend(resp_q, <<RespError("Failed to connect: e")>>)
    /\ sent' = RespAfterSend(sent, <<RespError("Failed to connect: e")>>)
    /\ a_pc' = PcAfterPoll(inlet')
    /\ UNCHANGED <<a_streams, command_sender, response_receiver, view, budget, applied>>

\* Ok(LslCommand::Connect(index)), StreamInlet::new succeeds, then
\* set_postprocessing or info fails: expect() panics.
RecvConnectPanics ==
    /\ a_pc = "poll"
    /\ cmd_q # << >>
    /\ Head(cmd_q).type = "Connect"
    /\ IndexInRange(Head(cmd_q).index, a_streams)
    /\ NoteCommandReceived
    /\ a_channel_count' = StreamChannelCount(a_streams[Head(cmd_q).index + 1])
    /\ ActorDies("panicked")
    /\ UNCHANGED <<a_streams, resp_q, command_sender, response_receiver,
                   view, budget, sent, applied>>

\* Ok(LslCommand::Connect(index)), the inlet is opened and described.
RecvConnectOk ==
    /\ a_pc = "poll"
    /\ cmd_q # << >>
    /\ Head(cmd_q).type = "Connect"
    /\ IndexInRange(Head(cmd_q).index, a_streams)
    /\ cmd_q' = Tail(cmd_q)
    /\ NoteCommandReceived
    /\ LET stream_info == a_streams[Head(cmd_q).index + 1]
           cc == StreamChannelCount(stream_info)
       IN  /\ a_channel_count' = cc
           /\ inlet' = Some(stream_info)
           /\ LET r == RespConnected(stream_info,
                             extract_channel_names(XmlLabels(stream_info), cc, cc))
              IN  /\ resp_q' = RespAfterSend(resp_q, <<r>>)
                  /\ sent' = RespAfterSend(sent, <<r>>)
    /\ a_pc' = PcAfterPoll(inlet')
    /\ UNCHANGED <<a_streams, command_sender, response_receiver, view, budget, applied>>

\* Ok(LslCommand::Disconnect).
RecvDisconnect ==
    /\ a_pc = "poll"
    /\ cmd_q # << >>
    /\ Head(cmd_q).type = "Disconnect"
    /\ cmd_q' = Tail(cmd_q)
    /\ NoteCommandReceived
    /\ inlet' = InletAfterDisconnect(inlet)
    /\ resp_q' = RespAfterSend(resp_q, <<RespDisconnected>>)
    /\ sent' = RespAfterSend(sent, <<RespDisconnected>>)
    /\ a_pc' = PcAfterPoll(inlet')
    /\ UNCHANGED <<a_streams, a_channel_count, command_sender, response_receiver,
                   view, budget, applied>>

\* Err(TryRecvError::Empty): nothing queued, the Sender still exists.
RecvEmpty ==
    /\ a_pc = "poll"
    /\ cmd_q = << >>
    /\ command_sender
    /\ a_pc' = PcAfterPoll(inlet)
    /\ UNCHANGED <<cmd_q, resp_q, command_sender, response_receiver, a_streams, inlet,
                   a_channel_count, view, budget, history>>

\* Err(TryRecvError::Disconnected): nothing queued and the Sender was dropped: break.
RecvDisconnected ==
    /\ a_pc = "poll"
    /\ cmd_q = << >>
    /\ ~command_sender
    /\ ActorDies("done")
    /\ UNCHANGED <<resp_q, command_sender, response_receiver, a_streams,
                   a_channel_count, view, budget, history>>

\* The timestamps the source stamps its samples with.
Timestamps == 0..src_end
\* The samples an inlet of cc channels may deliver, as the Data responses the
\* actor builds from them, and the chunks of n samples.
DataSamples(cc) == {RespData(ts, [ch \in 1..cc |-> Signal(ts, ch)]) : ts \in Timestamps}
Chunks(cc, n) == [1..n -> DataSamples(cc)]
\* The number of samples of a chunk that are stamped earlier than the sample
\* delivered before them.
BackSteps(clock, chunk) ==
    Cardinality({i \in 1..Len(chunk) :
        chunk[i].timestamp < (IF i = 1 THEN clock ELSE chunk[i - 1].timestamp)})

\* Pull while connected, pull_chunk returns Ok: one Data response per sample, in
\* order; a failed send panics.
PullChunk ==
    /\ a_pc = "pull"
    /\ inlet # None
    /\ \E n \in 0..samples_left :
         \E chunk \in Chunks(StreamChannelCount(inlet[1]), n) :
            /\ BackSteps(src_clock, chunk) <= back_left
            /\ back_left' = back_left - BackSteps(src_clock, chunk)
            /\ src_clock' = IF n = 0 THEN src_clock ELSE chunk[n].timestamp
            /\ samples_left' = samples_left - n
            /\ IF n > 0 /\ ~SendOk
               THEN /\ ActorDies("panicked")
                    /\ UNCHANGED <<resp_q, sent>>
               ELSE /\ resp_q' = resp_q \o chunk
                    /\ sent' = sent \o chunk
                    /\ a_pc' = "poll"
                    /\ UNCHANGED <<cmd_q, inlet>>
    /\ UNCHANGED <<command_sender, response_receiver, a_streams, a_channel_count,
                   view, cmds_left, controls_left, src_end, applied, queued_behind>>

\* Pull while connected, pull_chunk returns Err: panic.
PullFails ==
    /\ a_pc = "pull"
    /\ inlet # None
    /\ ActorDies("panicked")
    /\ UNCHANGED <<resp_q, command_sender, response_receiver, a_streams, a_channel_count,
                   view, budget, sent, applied, queued_behind>>

\* ================================================ LslViewer::process_responses
\* receiver.try_recv() hands out the oldest queued response.
NextResponse_Newest(q) == Last(q)
NextResponse(q) == Head(q)
RestResponses(q) == Tail(q)

\* A response is applied: v_pc stays "drain", the loop goes on.
TakeResponse(type) ==
    /\ v_pc = "drain"
    /\ response_receiver
    /\ resp_q # << >>
    /\ NextResponse(resp_q).type = type
    /\ resp_q' = RestResponses(resp_q)
    /\ applied' = Append(applied, NextResponse(resp_q))
    /\ UNCHANGED <<cmd_q, command_sender, response_receiver, actor, v_pc, budget,
                   sent, queued_behind>>

StreamsFoundStatus(streams) ==
    IF streams = << >> THEN "No streams found"
    ELSE "Found " \o ToString(Len(streams)) \o " stream(s)"

ProcessStreamsFound ==
    /\ TakeResponse("StreamsFound")
    /\ available_streams' = NextResponse(resp_q).streams
    /\ status_message' = StreamsFoundStatus(NextResponse(resp_q).streams)
    /\ UNCHANGED <<selected_stream_index, is_connected, channels, display, buffers>>

\* vec![VecDeque::new(); channel_count], vec![0.0; channel_count], vec![true; channel_count]
\* and the colours (0..channel_count).map(|i| colors[i % colors.len()]).
EmptyBuffers(n) == [i \in 1..n |-> << >>]
\* data_buffer after Connected: a new vector, nothing of the old one is kept.
BuffersAfterConnected_Resized(old, n) ==
    [i \in 1..n |-> IF i <= Len(old) THEN old[i] ELSE << >>]
BuffersAfterConnected(old, n) == EmptyBuffers(n)
Zero == <<0, 1>>
ZeroBaselines(n) == [i \in 1..n |-> Zero]
AllSelected(n) == [i \in 1..n |-> TRUE]
ColorsFor_Palette(n) == [i \in 1..NumColors |-> i - 1]
ColorsFor(n) == [i \in 1..n |-> (i - 1) % NumColors]

ProcessConnected ==
    /\ TakeResponse("Connected")
    /\ LET r == NextResponse(resp_q)
           n == Len(r.channels)
       IN  /\ channel_count' = n
           /\ selected_channels' = AllSelected(n)
           /\ data_buffer' = BuffersAfterConnected(data_buffer, n)
           /\ channel_baselines' = ZeroBaselines(n)
           /\ channel_names' = r.channels
           /\ is_connected' = TRUE
           /\ status_message' =
                "Connected to: " \o r.name \o " (" \o ToString(n) \o " channels)"
           /\ channel_colors' = ColorsFor(n)
    /\ UNCHANGED <<available_streams, selected_stream_index, display, last_t, last_t0>>

\* What the Disconnected arm leaves in data_buffer: it does not touch it.
BuffersAfterDisconnected(db) == db

ProcessDisconnected ==
    /\ TakeResponse("Disconnected")
    /\ is_connected' = FALSE
    /\ selected_stream_index' = None
    /\ status_message' = "Disconnected"
    /\ data_buffer' = BuffersAfterDisconnected(data_buffer)
    /\ UNCHANGED <<available_streams, channels, display, channel_baselines, last_t,
                   last_t0>>

ProcessError ==
    /\ TakeResponse("Error")
    /\ status_message' = "Error: " \o NextResponse(resp_q).msg
    /\ UNCHANGED <<connection, channels, display, buffers>>

\* channel_buffer.push_back((sample.timestamp, value)) for every value whose
\* index data_buffer.get_mut(ch) finds.
PushBack(buf, entry) == Append(buf, entry)
AppendSample(db, sample) ==
    [ch \in 1..Len(db) |->
        IF ch <= Len(sample.values)
        THEN PushBack(db[ch], <<sample.timestamp, sample.values[ch]>>)
        ELSE db[ch]]

\* The test of the eviction loop: timestamp < cutoff_time.
IsExpired_Inclusive(timestamp, cutoff_time) == timestamp <= cutoff_time
IsExpired(timestamp, cutoff_time) == timestamp < cutoff_time

\* while let Some(&(timestamp, _)) = channel_buffer.front() { pop_front or break }
RECURSIVE EvictFront(_, _)
EvictFront(buf, cutoff_time) ==
    IF buf # << >> /\ IsExpired(Head(buf)[1], cutoff_time)
    THEN EvictFront(Tail(buf), cutoff_time)
    ELSE buf

\* let cutoff_time = sample.timestamp - self.time_window_seconds
CutoffTime_Default(timestamp, window) == timestamp - DEFAULT_TIME_WINDOW_SECONDS
CutoffTime(timestamp, window) == timestamp - window

EvictAll(db, cutoff_time) == [ch \in 1..Len(db) |-> EvictFront(db[ch], cutoff_time)]

ProcessData ==
    /\ TakeResponse("Data")
    /\ LET sample == NextResponse(resp_q)
       IN  data_buffer' = EvictAll(AppendSample(data_buffer, sample),
                                   CutoffTime(sample.timestamp, time_window_seconds))
    /\ UNCHANGED <<connection, channels, display, channel_baselines, last_t, last_t0,
                   status_message>>

\* try_recv returns Err (nothing queued, or the actor is gone): the loop ends and
\* update() goes on to the panels.
DrainEnd ==
    /\ v_pc = "drain"
    /\ resp_q = << >>
    /\ v_pc' = "frame"
    /\ UNCHANGED <<queues, actor, connection, channels, display, buffers, status_message,
                   budget, history>>

\* ================================================ LslViewer::baseline_correct
RECURSIVE GCD(_, _)
GCD(a, b) == IF b = 0 THEN a ELSE GCD(b, a % b)
\* The quotient sum / count as a fraction in lowest terms.
Quotient(sum, count) == <<sum \div GCD(sum, count), count \div GCD(sum, count)>>

RECURSIVE SumValues(_)
SumValues(buf) == IF buf = << >> THEN 0 ELSE Head(buf)[2] + SumValues(Tail(buf))

\* self.channel_baselines[i] = sum / count, for the channels that hold samples.
baseline_correct_ResetsEmpty(db, baselines) ==
    [i \in 1..Len(baselines) |->
        IF i <= Len(db) /\ db[i] # << >>
        THEN Quotient(SumValues(db[i]), Len(db[i]))
        ELSE Zero]
baseline_correct_Accumulates(db, baselines) ==
    [i \in 1..Len(baselines) |->
        IF i <= Len(db) /\ db[i] # << >>
        THEN Quotient(baselines[i][1] * Len(db[i]) + SumValues(db[i]) * baselines[i][2],
                      baselines[i][2] * Len(db[i]))
        ELSE baselines[i]]
baseline_correct(db, baselines) ==
    [i \in 1..Len(baselines) |->
        IF i <= Len(db) /\ db[i] # << >>
        THEN Quotient(SumValues(db[i]), Len(db[i]))
        ELSE baselines[i]]

\* ===================================================== the plot closure
\* Rust's % on f64 is the truncating remainder (the sign of the dividend).
TruncRem(a, b) == IF a >= 0 THEN a % b ELSE -((-a) % b)

PlotShown ==
    /\ is_connected
    /\ channel_count > 0
    /\ data_buffer # << >>
    /\ Len(data_buffer[1]) > 0

RECURSIVE LatestFrom(_, _, _)
LatestFrom(db, ch, latest) ==
    IF ch > Len(db) THEN latest
    ELSE LatestFrom(db, ch + 1,
                    IF db[ch] # << >> THEN Max2(latest, Last(db[ch])[1]) ELSE latest)
LatestTimestamp(db) == LatestFrom(db, 1, 0)

SweepOrigin(latest_timestamp, window) ==
    latest_timestamp - TruncRem(latest_timestamp, window)

\* let n = self.downsample_factor.max(1)
Stride(factor) == Max2(factor, 1)
\* channel_data.iter().step_by(n)
StepBy_ChunkEnds(buf, n) == [k \in 1..(Len(buf) \div n) |-> buf[k * n]]
StepBy(buf, n) == [k \in 1..((Len(buf) + n - 1) \div n) |-> buf[(k - 1) * n + 1]]

\* The points the closure draws for one channel: the strided samples, each on
\* the fresh trace (points_vec_a) at t or on the stale trace (points_vec_b) at
\* t + window.  `value` is the sample's value; the height drawn is
\* (value - baseline) * data_scale / 10000 - plot_idx.
TRel(timestamp, t0, window) == TruncRem(timestamp - t0, window)
IsFresh(t) == t > 0
PlotPoint_Unshifted(entry, t0, window) ==
    LET t == TRel(entry[1], t0, window)
    IN  [fresh |-> IsFresh(t), t |-> t, value |-> entry[2]]
PlotPoint(entry, t0, window) ==
    LET t == TRel(entry[1], t0, window)
    IN  IF IsFresh(t)
        THEN [fresh |-> TRUE, t |-> t, value |-> entry[2]]
        ELSE [fresh |-> FALSE, t |-> t + window, value |-> entry[2]]
PlotPoints(buf, n, t0, window) ==
    [k \in 1..Len(StepBy(buf, n)) |-> PlotPoint(StepBy(buf, n)[k], t0, window)]
\* The horizontal positions of the fresh points (points_vec_a) of one channel.
FreshPositions(buf, n, t0, window) ==
    LET a == SelectSeq(PlotPoints(buf, n, t0, window), LAMBDA pt : pt.fresh)
    IN  [k \in 1..Len(a) |-> a[k].t]

\* t_last after the loop over the channels: that of the last channel drawn.
RECURSIVE TLastFrom(_, _, _, _, _, _, _)
TLastFrom(db, sel, n, t0, window, ch, t_last) ==
    IF ch > Len(db) THEN t_last
    ELSE TLastFrom(db, sel, n, t0, window, ch + 1,
            IF ch <= Len(sel) /\ sel[ch] /\ db[ch] # << >>
            THEN LET a == FreshPositions(db[ch], n, t0, window)
                 IN  IF a = << >> THEN 0 ELSE Last(a)
            ELSE t_last)
TLast(db, sel, factor, window) ==
    TLastFrom(db, sel, Stride(factor), SweepOrigin(LatestTimestamp(db), window),
              window, 1, 0)

\* The plot closure run on the state the panels left: baselines `bl`, window `w`,
\* selection `sel`, decimation `factor`.
\* data_buffer after the panels and the plot of one frame: the controls assign
\* display fields only, baseline_correct iterates the buffers (iter_mut) without
\* assigning to them, and the plot closure borrows them (&self.data_buffer).
BuffersAfterPlot_Drained(db) == [ch \in 1..Len(db) |-> << >>]
BuffersAfterPlot(db) == db
PlotWith(bl, w, sel, factor) ==
    /\ data_buffer' = BuffersAfterPlot(data_buffer)
    /\ IF PlotShown
       THEN LET t_last == TLast(data_buffer, sel, factor, w)
            IN  /\ channel_baselines' =
                       IF t_last < last_t THEN baseline_correct(data_buffer, bl) ELSE bl
                /\ last_t' = t_last
                /\ last_t0' = Some(SweepOrigin(LatestTimestamp(data_buffer), w))
       ELSE /\ channel_baselines' = bl
            /\ last_t' = last_t
            /\ last_t0' = None
Plot(bl, w) == PlotWith(bl, w, selected_channels, downsample_factor)

\* ============================================== LslViewer::update, one frame
\* After the drain update() runs the panels, the plot and the status bar; the
\* user acts on at most one control per frame.
\* send_command: the command is queued while the actor holds the Receiver.
CmdAfterSend(q, c) == IF ActorAlive THEN Append(q, c) ELSE q

FrameEnds ==
    /\ v_pc = "frame"
    /\ v_pc' = "drain"
    /\ UNCHANGED <<resp_q, command_sender, response_receiver, actor, samples_left, back_left,
                   src_clock, src_end, history>>

FrameIdle ==
    /\ FrameEnds
    /\ Plot(channel_baselines, time_window_seconds)
    /\ UNCHANGED <<cmd_q, cmds_left, controls_left, connection, channels, display,
                   status_message>>

\* "Refresh Streams", shown while not connected.
FrameClickRefresh ==
    /\ FrameEnds
    /\ ~is_connected
    /\ cmds_left > 0
    /\ cmds_left' = cmds_left - 1
    /\ cmd_q' = CmdAfterSend(cmd_q, CmdRefreshStreams)
    /\ Plot(channel_baselines, time_window_seconds)
    /\ UNCHANGED <<controls_left, connection, channels, display, status_message>>

\* The command a click on the label of stream i sends, LslCommand::Connect(i).
\* `shown` is history kept with it: the name of the stream the list showed at
\* that index when the user clicked.  The command of the program carries the
\* index only, and the actor reads the index only.
ConnectClicked(i, streams) == CmdConnect(i) @@ [shown |-> streams[i + 1].name]

\* A click on the label of stream i, shown while not connected.
FrameClickStream ==
    /\ FrameEnds
    /\ ~is_connected
    /\ cmds_left > 0
    /\ \E i \in 0..(Len(available_streams) - 1) :
          /\ selected_stream_index' = Some(i)
          /\ cmd_q' = CmdAfterSend(cmd_q, ConnectClicked(i, available_streams))
    /\ cmds_left' = cmds_left - 1
    /\ Plot(channel_baselines, time_window_seconds)
    /\ UNCHANGED <<controls_left, available_streams, is_connected, channels, display,
                   status_message>>

\* The window lengths the user picks: a window longer than the span of the
\* timestamps evicts nothing, like the longest one that is picked.
WindowInputs == {w \in TimeWindowChoices : w <= src_end}
\* The decimation factors the user picks.
ResampleInputs == {f \in ResampleChoices : f <= MaxFactor}

\* The "time_window" drop-down, shown while connected.
FrameSelectTimeWindow ==
    /\ FrameEnds
    /\ is_connected /\ channel_count > 0
    /\ controls_left > 0
    /\ controls_left' = controls_left - 1
    /\ \E w \in WindowInputs \ {time_window_seconds} :
          /\ time_window_seconds' = w
          /\ Plot(channel_baselines, w)
    /\ UNCHANGED <<cmd_q, cmds_left, connection, channels, downsample_factor,
                   status_message>>

\* "Correct Now", shown while connected.
FrameClickCorrectNow ==
    /\ FrameEnds
    /\ is_connected /\ channel_count > 0
    /\ controls_left > 0
    /\ controls_left' = controls_left - 1
    /\ Plot(baseline_correct(data_buffer, channel_baselines), time_window_seconds)
    /\ UNCHANGED <<cmd_q, cmds_left, connection, channels, display,
                   status_message>>

\* The "resample" drop-down, shown while connected.
FrameSelectResample ==
    /\ FrameEnds
    /\ is_connected /\ channel_count > 0
    /\ controls_left > 0
    /\ controls_left' = controls_left - 1
    /\ \E f \in ResampleInputs \ {downsample_factor} :
          /\ downsample_factor' = f
          /\ PlotWith(channel_baselines, time_window_seconds, selected_channels, f)
    /\ UNCHANGED <<cmd_q, cmds_left, connection, channels, time_window_seconds,
                   status_message>>

\* The "All" and "None" buttons and the channel checkboxes, shown while connected.
SelectChannels(sel) ==
    /\ FrameEnds
    /\ is_connected /\ channel_count > 0
    /\ controls_left > 0
    /\ controls_left' = controls_left - 1
    /\ selected_channels' = sel
    /\ PlotWith(channel_baselines, time_window_seconds, sel, downsample_factor)
    /\ UNCHANGED <<cmd_q, cmds_left, connection, channel_names, channel_count, channel_colors,
                   display, status_message>>
FrameClickAll == SelectChannels([i \in 1..Len(selected_channels) |-> TRUE])
FrameClickNone == SelectChannels([i \in 1..Len(selected_channels) |-> FALSE])
FrameToggleChannel ==
    \E ch \in 1..Len(channel_names) :
        SelectChannels([selected_channels EXCEPT ![ch] = ~selected_channels[ch]])

\* "Disconnect" in the status bar, shown while connected; the plot ran before it.
FrameClickDisconnect ==
    /\ FrameEnds
    /\ is_connected
    /\ cmds_left > 0
    /\ cmds_left' = cmds_left - 1
    /\ Plot(channel_baselines, time_window_seconds)
    /\ cmd_q' = CmdAfterSend(cmd_q, CmdDisconnect)
    /\ UNCHANGED <<controls_left, connection, channels, display, status_message>>

\* The window is closed and LslViewer dropped: its fields are dropped in the
\* order of their declaration, command_sender before response_receiver.
CloseDropSender ==
    /\ v_pc = "frame"
    /\ v_pc' = "closing"
    /\ command_sender' = FALSE
    /\ UNCHANGED <<cmd_q, resp_q, response_receiver, actor, connection, channels, display,
                   buffers, status_message, budget, history>>

CloseDropReceiver ==
    /\ v_pc = "closing"
    /\ v_pc' = "closed"
    /\ response_receiver' = FALSE
    /\ resp_q' = << >>
    /\ UNCHANGED <<cmd_q, command_sender, actor, connection, channels, display,
                   buffers, status_message, budget, history>>

\* ==================================================================== Next
\* Spec: the actor, the drain of the responses, and a user who sends commands.
Next ==
    \/ RecvRefreshStreams
    \/ RecvConnectInvalidIndex
    \/ RecvConnectOpenFails
    \/ RecvConnectPanics
    \/ RecvConnectOk
    \/ RecvDisconnect
    \/ RecvEmpty
    \/ PullChunk
    \/ PullFails
    \/ ProcessStreamsFound
    \/ ProcessConnected
    \/ ProcessDisconnected
    \/ ProcessError
    \/ ProcessData
    \/ DrainEnd
    \/ FrameIdle
    \/ FrameClickRefresh
    \/ FrameClickStream
    \/ FrameClickDisconnect

Spec == Init /\ [][Next]_vars

\* The state in which the view has applied the Connected response of a connection
\* to the stream found at index i of the discovery result <<"B", "A">>, and the
\* user has picked window w and decimation factor f.
InitConnected(i, w, f, controls, samples, back_steps, clock, end) ==
    LET streams == <<"B", "A">>
        s == streams[i + 1]
        cc == StreamChannelCount(s)
        found == RespStreamsFound(StreamDataOf(streams))
        connected == RespConnected(s, extract_channel_names(XmlLabels(s), cc, cc))
    IN  /\ cmd_q = << >>
        /\ resp_q = << >>
        /\ command_sender = TRUE
        /\ response_receiver = TRUE
        /\ a_pc = "pull"
        /\ a_streams = streams
        /\ inlet = Some(s)
        /\ a_channel_count = cc
        /\ v_pc = "drain"
        /\ available_streams = found.streams
        /\ selected_stream_index = Some(i)
        /\ is_connected = TRUE
        /\ channel_names = connected.channels
        /\ channel_count = cc
        /\ selected_channels = AllSelected(cc)
        /\ time_window_seconds = w
        /\ downsample_factor = f
        /\ data_buffer = EmptyBuffers(cc)
        /\ channel_baselines = ZeroBaselines(cc)
        /\ status_message =
              "Connected to: " \o s \o " (" \o ToString(cc) \o " channels)"
        /\ last_t = 0
        /\ last_t0 = None
        /\ channel_colors = ColorsFor(cc)
        /\ cmds_left = 0
        /\ controls_left = controls
        /\ samples_left = samples
        /\ back_left = back_steps
        /\ src_clock = clock
        /\ src_end = end
        /\ sent = <<found, connected>>
        /\ applied = <<found, connected>>
        /\ queued_behind = 0

\* SpecData: a session.  It starts where the view has applied the Connected
\* response of a connection; from there the source delivers samples and the user
\* acts on the window and baseline controls only.
InitData ==
    \E i \in 0..1 :
        InitConnected(i, DEFAULT_TIME_WINDOW_SECONDS, DEFAULT_DOWN_SAMPLE_FACTOR,
                      MaxControls, MaxSamplesData, MaxBackSteps, 0, MaxTime)

NextData ==
    \/ RecvEmpty
    \/ PullChunk
    \/ PullFails
    \/ ProcessData
    \/ DrainEnd
    \/ FrameIdle
    \/ FrameSelectTimeWindow
    \/ FrameClickCorrectNow

SpecData == InitData /\ [][NextData]_vars

\* SpecClose: a run from construction in which the window may be closed at the
\* end of any redraw, which drops the LslViewer and with it the two queue ends.
NextClose ==
    \/ Next
    \/ CloseDropSender
    \/ CloseDropReceiver
    \/ RecvDisconnected

SpecClose == Init /\ [][NextClose]_vars

\* SpecSweep: the sweep of the plot over a longer recording.  The view is
\* connected to stream "A"; the source delivers its samples in order; the user
\* has picked a window and a decimation factor and acts on the display controls.
InitSweep ==
    \E p \in {<<DEFAULT_TIME_WINDOW_SECONDS, DEFAULT_DOWN_SAMPLE_FACTOR>>, <<5, 3>>} :
        InitConnected(1, p[1], p[2], MaxControls, MaxSamplesSweep, 0,
                      MinTimeSweep, MaxTimeSweep)

NextSweep ==
    \/ RecvEmpty
    \/ PullChunk
    \/ ProcessData
    \/ DrainEnd
    \/ FrameIdle
    \/ FrameSelectTimeWindow
    \/ FrameClickCorrectNow
    \/ FrameSelectResample
    \/ FrameClickAll
    \/ FrameClickNone
    \/ FrameToggleChannel

SpecSweep == InitSweep /\ [][NextSweep]_vars

\* ================================================================= claims
\* Reading the histories.
IsData(r) == r.type = "Data"
\* The step applies a response of this type / the actor receives a command.
Applies(type) ==
    /\ Len(applied') = Len(applied) + 1
    /\ applied'[Len(applied')].type = type
ReceivesCommand ==
    /\ a_pc = "poll"
    /\ cmd_q # << >>
    /\ cmd_q' = Tail(cmd_q) \/ a_pc' = "panicked"
\* The Data responses of a history that follow its last Connected response.
LastConnected(h) ==
    LET cs == {i \in 1..Len(h) : h[i].type = "Connected"}
    IN  IF cs = {} THEN 0 ELSE CHOOSE i \in cs : \A j \in cs : j <= i
DataSince(h) == SelectSeq(SubSeq(h, LastConnected(h) + 1, Len(h)), IsData)
NonDecreasing(d) == \A i \in 1..(Len(d) - 1) : d[i].timestamp <= d[i + 1].timestamp
\* At most rate samples are stamped with any one time unit [t, t + 1).
RateAtMost(d, rate) ==
    \A t \in Timestamps : Cardinality({i \in 1..Len(d) : d[i].timestamp = t}) <= rate
\* The entries the Data responses of d hold for channel ch, in order.
ChannelEntries(d, ch) ==
    LET c == SelectSeq(d, LAMBDA r : Len(r.values) >= ch)
    IN  [k \in 1..Len(c) |-> <<c[k].timestamp, c[k].values[ch]>>]
IsSuffix(a, b) == Len(a) <= Len(b) /\ a = SubSeq(b, Len(b) - Len(a) + 1, Len(b))
Recent(buf, cutoff) == SelectSeq(buf, LAMBDA e : e[1] >= cutoff)

\* C1: in every loop iteration all pending commands are processed before a pull
\* is attempted: the actor never calls pull_chunk while a command that was already
\* queued behind the command it received last is still waiting.
C1_CommandsDrainedBeforePull ==
    (a_pc = "pull" /\ inlet # None) => queued_behind = 0

\* C2: no Data response is sent between a Disconnected response and the next
\* Connected response.
C2_NoDataAfterDisconnected ==
    \A i \in 1..Len(sent) : \A j \in (i + 1)..Len(sent) :
        (sent[i].type = "Disconnected" /\ sent[j].type = "Data")
            => \E k \in (i + 1)..(j - 1) : sent[k].type = "Connected"
\* Data was flowing, the Disconnect was processed, and the actor is back at its poll.
C2_Witness ==
    /\ a_pc = "poll"
    /\ inlet = None
    /\ \E i \in 1..Len(sent) : \E j \in (i + 1)..Len(sent) :
          sent[i].type = "Data" /\ sent[j].type = "Disconnected"

\* C3: every command the actor receives produces exactly one response, which is not
\* Data and is of the kind of the command: StreamsFound or Error for RefreshStreams,
\* Connected or Error for Connect, Disconnected for Disconnect.
ResponseKinds(command_type) ==
    CASE command_type = "RefreshStreams" -> {"StreamsFound", "Error"}
      [] command_type = "Connect" -> {"Connected", "Error"}
      [] command_type = "Disconnect" -> {"Disconnected"}
C3_OneResponsePerCommand ==
    [][ReceivesCommand =>
        /\ Len(sent') = Len(sent) + 1
        /\ SubSeq(sent', 1, Len(sent)) = sent
        /\ sent'[Len(sent')].type \in ResponseKinds(Head(cmd_q).type)]_vars

\* C4: a Connect that is answered with Error leaves the inlet and the discovery
\* cache as they were and sends nothing but that one Error; a Connect whose index
\* is out of range is answered with Error; only a Connect answered with Connected
\* changes the inlet.
C4_FailedConnectKeepsState ==
    [][(ReceivesCommand /\ Head(cmd_q).type = "Connect" /\ a_pc' # "panicked") =>
        /\ Len(sent') = Len(sent) + 1
        /\ SubSeq(sent', 1, Len(sent)) = sent
        /\ a_streams' = a_streams
        /\ LET r == sent'[Len(sent')]
           IN  \/ r.type = "Error" /\ inlet' = inlet
               \/ /\ r.type = "Connected"
                  /\ IndexInRange(Head(cmd_q).index, a_streams)
                  /\ inlet' = Some(a_streams[Head(cmd_q).index + 1])]_vars
\* A Connect failed while a stream was connected: the inlet is still there.
C4_Witness ==
    /\ sent # << >>
    /\ Last(sent).type = "Error"
    /\ Last(sent).msg \in {"Failed to connect: e", "Invalid stream index"}
    /\ inlet # None

\* C5: the responses applied are a prefix of the responses sent, what is sent and
\* not yet applied is queued in the order sent, and each channel buffer holds, in
\* the order applied, the latest entries of the Data responses since the last
\* Connected response.
C5_AppliedInOrderSent ==
    /\ sent = applied \o resp_q
    /\ \A ch \in 1..Len(data_buffer) :
          IsSuffix(data_buffer[ch], ChannelEntries(DataSince(applied), ch))
\* Two Data responses were applied and more responses were sent behind them.
C5_Witness ==
    /\ Len(DataSince(applied)) >= 2
    /\ data_buffer # << >>
    /\ Len(data_buffer[1]) >= 2
    /\ resp_q # << >>

\* C6: after a Data response with timestamp now is applied no buffer holds an
\* entry older than now - time_window_seconds, whatever the timestamps of the
\* Data responses applied before.
C6_NoEntryOlderThanWindow ==
    [][Applies("Data") =>
        \A ch \in 1..Len(data_buffer') : \A k \in 1..Len(data_buffer'[ch]) :
            data_buffer'[ch][k][1] >=
                applied'[Len(applied')].timestamp - time_window_seconds']_vars

\* C7: applying a Data response with timestamp now removes no entry whose
\* timestamp is at least now - time_window_seconds: the entries that recent are,
\* after the step, those of before and the new one.
C7_NoRecentEntryRemoved ==
    [][Applies("Data") =>
        LET sample == applied'[Len(applied')]
            cutoff == sample.timestamp - time_window_seconds
        IN  \A ch \in 1..Len(data_buffer) :
                Recent(data_buffer'[ch], cutoff) =
                    Recent(data_buffer[ch], cutoff)
                        \o (IF ch <= Len(sample.values)
                            THEN <<<<sample.timestamp, sample.values[ch]>>>>
                            ELSE << >>)]_vars
\* An entry exactly at the cutoff is at the head of a buffer that has evicted.
C7_Witness ==
    /\ applied # << >>
    /\ Last(applied).type = "Data"
    /\ Len(data_buffer[1]) < Len(DataSince(applied))
    /\ Len(data_buffer[1]) >= 2
    /\ Head(data_buffer[1])[1] = Last(applied).timestamp - time_window_seconds

\* C8 as stated: with non-decreasing timestamps and at most R samples per time
\* unit every buffer holds at most window_seconds * R + 1 entries after a Data
\* response is applied.
C8_BufferBound ==
    [][Applies("Data") =>
        \A rate \in 1..Len(applied') :
            (NonDecreasing(DataSince(applied')) /\ RateAtMost(DataSince(applied'), rate))
                => \A ch \in 1..Len(data_buffer') :
                      Len(data_buffer'[ch]) <= time_window_seconds' * rate + 1]_vars
\* C8 as amended: the bound is window_seconds * R + R, the samples of
\* window_seconds + 1 time units.
C8_BufferBoundPerUnit ==
    [][Applies("Data") =>
        \A rate \in 1..Len(applied') :
            (NonDecreasing(DataSince(applied')) /\ RateAtMost(DataSince(applied'), rate))
                => \A ch \in 1..Len(data_buffer') :
                      Len(data_buffer'[ch]) <= time_window_seconds' * rate + rate]_vars
\* Two samples per time unit fill a buffer to window_seconds * 2 + 2 entries.
C8_Witness ==
    /\ applied # << >>
    /\ Last(applied).type = "Data"
    /\ NonDecreasing(DataSince(applied))
    /\ RateAtMost(DataSince(applied), 2)
    /\ Len(data_buffer[1]) = time_window_seconds * 2 + 2

\* C9: applying Connected(name, labels) leaves len(labels) empty buffers, zero
\* baselines, every channel selected and is_connected true; no other step changes
\* the number of buffers, and no step but applying Data changes a buffer.
C9_ResetOncePerConnected ==
    [][IF Applies("Connected")
       THEN LET n == Len(applied'[Len(applied')].channels)
            IN  /\ data_buffer' = [i \in 1..n |-> << >>]
                /\ channel_baselines' = [i \in 1..n |-> <<0, 1>>]
                /\ selected_channels' = [i \in 1..n |-> TRUE]
                /\ channel_count' = n
                /\ is_connected'
       ELSE /\ Len(data_buffer') = Len(data_buffer)
            /\ data_buffer' # data_buffer => Applies("Data")]_vars
\* A second Connected was applied after samples of the first connection.
C9_Witness ==
    /\ applied # << >>
    /\ Last(applied).type = "Connected"
    /\ \E j \in 1..Len(applied) : applied[j].type = "Data"
    /\ data_buffer # << >>
    /\ \A ch \in 1..Len(data_buffer) : data_buffer[ch] = << >>

\* C10: after a Disconnected response is applied the buffer store holds no sample.
C10_BuffersDiscardedAtDisconnect ==
    (applied # << >> /\ Last(applied).type = "Disconnected")
        => \A ch \in 1..Len(data_buffer) : data_buffer[ch] = << >>

\* The baselines a recomputation may find in place: vectors of n of these values.
PreviousBaselines(n) == [1..n -> {<<0, 1>>, <<1, 1>>, <<1, 2>>}] \cup {channel_baselines}
\* The sum of the values a buffer holds.
TotalOf(buf) ==
    LET S[k \in 0..Len(buf)] == IF k = 0 THEN 0 ELSE S[k - 1] + buf[k][2]
    IN  S[Len(buf)]

\* C11: baseline_correct sets the baseline of every channel that holds a sample to
\* the mean of the values buffered for it (baseline * count = sum) and leaves the
\* baseline of every channel with an empty buffer at its previous value.
C11_BaselineIsMeanOrKept ==
    \A prev \in PreviousBaselines(Len(data_buffer)) :
        LET b == baseline_correct(data_buffer, prev)
        IN  /\ Len(b) = Len(prev)
            /\ \A ch \in 1..Len(data_buffer) :
                  IF data_buffer[ch] # << >>
                  THEN /\ b[ch][2] > 0
                       /\ b[ch][1] * Len(data_buffer[ch]) = TotalOf(data_buffer[ch]) * b[ch][2]
                  ELSE b[ch] = prev[ch]
\* A recomputation has set a baseline that is not zero from buffered samples.
C11_Witness ==
    /\ data_buffer # << >>
    /\ Len(data_buffer[1]) >= 2
    /\ channel_baselines[1] # <<0, 1>>
    /\ channel_baselines = baseline_correct(data_buffer, channel_baselines)

\* C12: baseline_correct called twice on the same buffers gives the baselines it
\* gives when called once.
C12_BaselineIdempotent ==
    \A prev \in PreviousBaselines(Len(data_buffer)) :
        baseline_correct(data_buffer, baseline_correct(data_buffer, prev))
            = baseline_correct(data_buffer, prev)
\* "Correct Now" was clicked on buffered samples whose mean is not zero, after
\* which no sample arrived.
C12_Witness ==
    /\ controls_left < MaxControls
    /\ time_window_seconds = DEFAULT_TIME_WINDOW_SECONDS
    /\ applied # << >> /\ Last(applied).type = "Data"
    /\ resp_q = << >>
    /\ channel_baselines # ZeroBaselines(channel_count)
    /\ channel_baselines = baseline_correct(data_buffer, channel_baselines)

\* The step is a redraw that drew the plot; the sweep origin the plot closure
\* computes in the current state.
Redraws == v_pc = "frame" /\ v_pc' = "drain" /\ last_t0' # None
CurrentT0 == SweepOrigin(LatestTimestamp(data_buffer), time_window_seconds)

\* C13: a redraw whose sweep origin t0 is greater than that of the redraw before,
\* with the window, decimation factor and channel selection of the redraw before,
\* triggers a baseline recomputation, i.e. finds t_last < last_t.
C13_RolloverTriggersBaseline ==
    [][(/\ Redraws
        /\ last_t0 # None
        /\ last_t0'[1] > last_t0[1]
        /\ time_window_seconds' = time_window_seconds
        /\ downsample_factor' = downsample_factor
        /\ selected_channels' = selected_channels) => last_t' < last_t]_vars

\* C14: between two consecutive redraws with the same sweep origin, window,
\* decimation factor and channel selection the marker position t_last does not
\* decrease, so that no baseline recomputation is triggered.
C14_MarkerMonotoneWithinSweep ==
    [][(/\ Redraws
        /\ last_t0' = last_t0
        /\ time_window_seconds' = time_window_seconds
        /\ downsample_factor' = downsample_factor
        /\ selected_channels' = selected_channels) => last_t' >= last_t]_vars

\* C15: a buffered sample with 0 <= ts - t0 < W is drawn on the fresh trace at
\* (ts - t0) mod W, every other sample on the stale trace at ((ts - t0) mod W) + W.
C15_FreshAndStalePlacement ==
    PlotShown =>
        \A ch \in 1..Len(data_buffer) : \A k \in 1..Len(data_buffer[ch]) :
            LET ts == data_buffer[ch][k][1]
                pt == PlotPoint(data_buffer[ch][k], CurrentT0, time_window_seconds)
            IN  IF 0 <= ts - CurrentT0 /\ ts - CurrentT0 < time_window_seconds
                THEN pt.fresh /\ pt.t = TruncRem(ts - CurrentT0, time_window_seconds)
                ELSE /\ ~pt.fresh
                     /\ pt.t = TruncRem(ts - CurrentT0, time_window_seconds)
                                  + time_window_seconds

\* C16 as stated: a buffered sample whose (ts - t0) mod W is negative is drawn on
\* the stale trace at t_rel + W, and that position is greater than W - epsilon
\* for every epsilon > 0 and less than 2W.
C16_NegativeRemainderBeyondWindow ==
    PlotShown =>
        \A ch \in 1..Len(data_buffer) : \A k \in 1..Len(data_buffer[ch]) :
            LET t_rel == TruncRem(data_buffer[ch][k][1] - CurrentT0, time_window_seconds)
                pt == PlotPoint(data_buffer[ch][k], CurrentT0, time_window_seconds)
            IN  t_rel < 0 =>
                    /\ ~pt.fresh
                    /\ pt.t = t_rel + time_window_seconds
                    /\ pt.t >= time_window_seconds
                    /\ pt.t < 2 * time_window_seconds
\* C16 as amended: the same sample is drawn on the stale trace at t_rel + W, and
\* that position is greater than 0 and less than W.
C16_NegativeRemainderInsideWindow ==
    PlotShown =>
        \A ch \in 1..Len(data_buffer) : \A k \in 1..Len(data_buffer[ch]) :
            LET t_rel == TruncRem(data_buffer[ch][k][1] - CurrentT0, time_window_seconds)
                pt == PlotPoint(data_buffer[ch][k], CurrentT0, time_window_seconds)
            IN  t_rel < 0 =>
                    /\ ~pt.fresh
                    /\ pt.t = t_rel + time_window_seconds
                    /\ pt.t > 0
                    /\ pt.t < time_window_seconds
\* The plot is drawn from a buffer that holds a sample of the sweep before.
C16_Witness ==
    /\ PlotShown
    /\ v_pc = "frame"
    /\ \E k \in 1..Len(data_buffer[1]) :
          TruncRem(data_buffer[1][k][1] - CurrentT0, time_window_seconds) < 0

\* C17: with decimation factor f the plot draws, for a selected channel that
\* holds L samples, ceil(L / n) points, n = f but 1 for f = 0: the k-th point is
\* the sample at index (k - 1) * n, at the position of its own timestamp and with
\* its own value.
C17_DecimationStrides ==
    PlotShown =>
        \A f \in (0..MaxFactor) \cup {downsample_factor} :
            \A ch \in 1..Len(data_buffer) :
                LET n == IF f = 0 THEN 1 ELSE f
                    buf == data_buffer[ch]
                    pts == PlotPoints(buf, Stride(f), CurrentT0, time_window_seconds)
                IN  /\ Len(pts) * n >= Len(buf)
                    /\ (Len(pts) - 1) * n < Len(buf)
                    /\ \A k \in 1..Len(pts) :
                          LET e == buf[(k - 1) * n + 1]
                              t == TruncRem(e[1] - CurrentT0, time_window_seconds)
                          IN  /\ pts[k].value = e[2]
                              /\ pts[k].t = IF pts[k].fresh THEN t
                                            ELSE t + time_window_seconds
\* The plot is drawn with a factor of 3 from a buffer of at least 4 samples.
C17_Witness ==
    /\ PlotShown
    /\ v_pc = "frame"
    /\ downsample_factor = 3
    /\ selected_channels[1]
    /\ Len(data_buffer[1]) >= 4
    /\ last_t > 0

\* The step ends the actor's thread; the step is a pull that fails (pull_chunk
\* returns Err, no sample is delivered); the step is a Connect that panics.
ActorLeaves == a_pc \in {"poll", "pull"} /\ a_pc' \in {"done", "panicked"}
PullFailure ==
    a_pc = "pull" /\ inlet # None /\ a_pc' = "panicked" /\ samples_left' = samples_left
ConnectFailure ==
    a_pc = "poll" /\ cmd_q # << >> /\ Head(cmd_q).type = "Connect" /\ a_pc' = "panicked"

\* C18: the actor leaves its loop only through the closed-queue branch, that is
\* with the command sender dropped and no command left in the queue, unless the
\* adapter fails fatally.
C18_LeavesOnlyByClosedQueue ==
    [][ActorLeaves =>
        \/ a_pc' = "done" /\ ~command_sender /\ cmd_q = << >>
        \/ PullFailure
        \/ ConnectFailure]_vars

\* C19: a pull that fails while connected and a Connect whose index is out of
\* range each send an Error response, and the view turns every Error response it
\* applies into its status_message.
C19_ErrorsSurfaceAsStatus ==
    [][/\ (PullFailure \/ (ReceivesCommand /\ Head(cmd_q).type = "Connect"
                            /\ ~IndexInRange(Head(cmd_q).index, a_streams)))
            => /\ Len(sent') = Len(sent) + 1
               /\ sent'[Len(sent')].type = "Error"
       /\ Applies("Error")
            => status_message' = "Error: " \o applied'[Len(applied')].msg]_vars

\* C20: the view sends a command only when every command it sent before has been
\* received by the actor and the response to it has been applied.
Outstanding == Len(cmd_q) + Len(SelectSeq(resp_q, LAMBDA r : r.type # "Data"))
C20_OneOutstandingRequest ==
    [][Len(cmd_q') > Len(cmd_q) => Outstanding = 0]_vars

\* --------------------------------------------------- the actor scheduled fairly
\* One pass of the loop of lsl_handler_thread up to its next position: the
\* try_recv and the arm it selects, or the pull that follows it.
ActorStep ==
    \/ RecvRefreshStreams
    \/ RecvConnectInvalidIndex
    \/ RecvConnectOpenFails
    \/ RecvConnectPanics
    \/ RecvConnectOk
    \/ RecvDisconnect
    \/ RecvEmpty
    \/ PullChunk
    \/ PullFails

\* The thread spawned by LslViewer::new runs `loop { ... thread::sleep(25 ms) }`
\* and no call in it blocks without a timeout, so while the thread is in the
\* loop its next pass is eventually taken.  The presentation context is under no
\* such condition: the user may stop clicking.
SpecLive == Init /\ [][Next]_vars /\ WF_vars(ActorStep)

\* C21: every command in the command queue is eventually received by the actor
\* while it is running its loop, so that the queue is empty again with the actor
\* not ended by a panic, also while a stream is connected and delivering data.
C21_EveryCommandReceived ==
    (cmd_q # << >>) ~> (cmd_q = << >> /\ a_pc # "panicked")

\* C22: a RefreshStreams that succeeds leaves in the actor's cache exactly the
\* list just discovered, which is the list its StreamsFound response carries, and
\* one that fails leaves the cache and the connection as they were; the view that
\* applies a StreamsFound holds exactly the list it carries, with the status
\* "No streams found" when that list is empty.
Refreshes == ReceivesCommand /\ Head(cmd_q).type = "RefreshStreams"
C22_DiscoverySuperseded ==
    [][/\ Refreshes =>
            /\ Len(sent') = Len(sent) + 1
            /\ LET r == sent'[Len(sent')]
               IN  \/ /\ r.type = "StreamsFound"
                      /\ a_streams' \in DiscoveryResults
                      /\ r.streams = StreamDataOf(a_streams')
                      /\ inlet' = inlet
                   \/ /\ r.type = "Error"
                      /\ a_streams' = a_streams
                      /\ inlet' = inlet
       /\ Applies("StreamsFound") =>
            /\ available_streams' = applied'[Len(applied')].streams
            /\ (available_streams' = << >>) <=> (status_message' = "No streams found")]_vars
\* The view has applied a list of two streams and then an empty one, and shows none;
\* the actor's cache, which held a stream, is empty as well.
C22_Witness ==
    /\ \E i \in 1..Len(applied) :
          /\ applied[i].type = "StreamsFound"
          /\ Len(applied[i].streams) = 2
          /\ i < Len(applied)
    /\ applied[Len(applied)].type = "StreamsFound"
    /\ available_streams = << >>
    /\ status_message = "No streams found"
    /\ a_streams = << >>

\* C23: a step changes a channel buffer only if it applies a Data or a Connected
\* response; a frame of update(), with the redraw, baseline_correct and whichever
\* display control the user acts on, leaves every channel buffer as it was.
C23_BuffersChangedOnlyByResponses ==
    [][/\ data_buffer' # data_buffer => Applies("Data") \/ Applies("Connected")
       /\ (v_pc = "frame" /\ v_pc' = "drain") => data_buffer' = data_buffer]_vars
\* The user has acted on a display control, a redraw has drawn the plot and a
\* baseline correction has taken place, with samples in every channel buffer.
C23_Witness ==
    /\ controls_left < MaxControls
    /\ v_pc = "drain"
    /\ last_t0 # None
    /\ \E ch \in 1..Len(channel_baselines) : channel_baselines[ch] # Zero
    /\ \A ch \in 1..Len(data_buffer) : Len(data_buffer[ch]) >= 2

\* C24: in every reachable state data_buffer, channel_baselines,
\* selected_channels, channel_names and channel_colors each have channel_count
\* elements, so every per-channel index below channel_count is within each of them.
C24_VectorsHaveChannelCount ==
    /\ Len(data_buffer) = channel_count
    /\ Len(channel_baselines) = channel_count
    /\ Len(selected_channels) = channel_count
    /\ Len(channel_names) = channel_count
    /\ Len(channel_colors) = channel_count
\* The view has applied two Connected responses with different channel counts and
\* samples of the second connection.
C24_Witness ==
    /\ \E i \in 1..Len(applied) :
          /\ applied[i].type = "Connected"
          /\ i < LastConnected(applied)
          /\ Len(applied[i].channels) # channel_count
    /\ channel_count > 0
    /\ data_buffer[1] # << >>

\* C25: when the actor receives Connect(i) and its discovery cache has an entry
\* at index i, the entry it connects to is the stream the view's list showed at
\* index i when the user clicked.
C25_ConnectsToStreamShown ==
    [][(/\ ReceivesCommand
        /\ Head(cmd_q).type = "Connect"
        /\ IndexInRange(Head(cmd_q).index, a_streams))
            => a_streams[Head(cmd_q).index + 1] = Head(cmd_q).shown]_vars

\* C26: every Data response the view applies comes from the stream of the
\* Connected response it applied last: it has as many values as that stream has
\* channels and as the view has channel buffers, so every value is appended, and
\* all channel buffers hold the same sequence of timestamps.
Stamps(buf) == [k \in 1..Len(buf) |-> buf[k][1]]
C26_DataOfCurrentConnection ==
    [][Applies("Data") =>
        LET r == applied'[Len(applied')]
            c == LastConnected(applied)
        IN  /\ c > 0
            /\ Len(r.values) = StreamChannelCount(applied[c].name)
            /\ Len(r.values) = Len(data_buffer)
            /\ \A ch \in 1..Len(data_buffer') :
                  /\ Stamps(data_buffer'[ch]) = Stamps(data_buffer'[1])
                  /\ Last(data_buffer'[ch]) = <<r.timestamp, r.values[ch]>>]_vars
\* A Connect was received while another stream was connected and delivering:
\* the view has applied Connected, Data of that stream, Connected of a stream
\* with another channel count and then Data of it, with no Disconnected.
C26_Witness ==
    /\ \E i, j \in 1..Len(applied) :
          /\ i < j /\ j < LastConnected(applied)
          /\ applied[i].type = "Connected"
          /\ applied[j].type = "Data"
          /\ applied[i].name # applied[LastConnected(applied)].name
    /\ \A k \in 1..Len(applied) : applied[k].type # "Disconnected"
    /\ applied[Len(applied)].type = "Data"
    /\ Len(applied[Len(applied)].values) = Len(data_buffer)

====
